---- MODULE Spec2Model ----
(***************************************************************************)
(* Model of parse_clutch.py: a dispatcher (main) that seeds an             *)
(* asyncio.Queue with profile links, launches `concurrency` worker tasks   *)
(* in an asyncio.TaskGroup, waits for q.join(), enqueues one None per      *)
(* worker and leaves the TaskGroup; workers share one AsyncLimiter.        *)
(*                                                                         *)
(* The program runs on one asyncio event loop, so a task runs without      *)
(* interruption from one suspension to the next: every action below is     *)
(* the code a task executes between two suspensions.  q.get() on a         *)
(* non-empty queue, q.join() with no unfinished task and limiter.acquire() *)
(* with capacity left do not suspend.                                      *)
(***************************************************************************)
EXTENDS Integers, Sequences, FiniteSets

VARIABLES
    args,           \* parser.parse_args(): concurrency, rate_limit, randomize
    dpc,            \* where main() is suspended
    profile_links,  \* the list main() holds (shuffled in place)
    queue,          \* q._queue, head first
    unfinished,     \* q._unfinished_tasks
    wpc,            \* where each worker task is suspended
    link,           \* the worker's local `link` (None outside a cycle)
    wcancel,        \* task.cancel() was called on the worker, not yet delivered
    dcancel,        \* task.cancel() was called on main(), not yet delivered
    aborting,       \* TaskGroup._aborting
    errors,         \* len(TaskGroup._errors)
    interrupted,    \* SIGINT was received by asyncio.run
    level,          \* AsyncLimiter._level, in units of one acquire
    recent,         \* history: acquires granted in each tick of the last period
    fetched,        \* history: page.goto calls started, per link
    sink,           \* output: lines written, per link they came from
    hist,           \* history counters of queue calls and cycle outcomes
    owed,           \* history: per worker, item gets minus item task_done calls
    joined          \* history: q.join() has returned

vars == <<args, dpc, profile_links, queue, unfinished, wpc, link, wcancel,
          dcancel, aborting, errors, interrupted, level, recent, fetched,
          sink, hist, owed, joined>>

----------------------------------------------------------------------------
\* Bounds of the model.

MaxLinks == 3
MaxConcurrency == 2
Rate == 2

Urls == {"a", "b"}
None == "None"

\* The sitemap the browser serves: its first k profile links, for any k.
\* Profile "a" (listed more than once) shows a website link, profile "b"
\* shows none.
Sitemap == [i \in 1 .. MaxLinks |-> IF i = 2 THEN "b" ELSE "a"]

\* What page.evaluate finds on a loaded profile page: whether the element
\* a.website-link__item is there is a property of the page.
HasWebsiteLink(l) == l = "a"

Discoverable == {SubSeq(Sitemap, 1, k) : k \in 0 .. MaxLinks}

RECURSIVE Count(_, _)
Count(s, x) ==
    IF s = <<>> THEN 0
    ELSE (IF Head(s) = x THEN 1 ELSE 0) + Count(Tail(s), x)

RECURSIVE Sum(_)
Sum(s) == IF s = <<>> THEN 0 ELSE Head(s) + Sum(Tail(s))

Workers == 1 .. args.concurrency

Terminal == {"stopped", "cancelled", "failed"}

\* Variant: `link = await q.get()` inside the try statement.
InCycleWithGet == {"get", "throttled", "fetching"}

\* The suspensions inside the try statement, where the finally clause runs.
InCycle == {"throttled", "fetching"}

\* The suspensions at which the worker's `context` exists and is not closed:
\* from the loop's first get() to the end of context.close().
HasContext == {"get", "throttled", "fetching", "closing"}

Zeros(n) == [i \in 1 .. n |-> 0]
----------------------------------------------------------------------------
\* asyncio.Queue, AsyncLimiter and random.shuffle, as the program uses them.

\* Variant: join() returning as soon as the queue is empty.
JoinReadyWhenEmpty(unf) == queue = <<>>

\* Variant: no `await q.join()` before the Nones are put.
JoinReadyAlways(unf) == TRUE

\* q.join() returns (or does not suspend at all) when no task is unfinished.
JoinReady(unf) == unf = 0

\* Variant: get() leaving the item it returns in the queue.
QueueAfterPeek(q) == q

\* q.get() returns the head of the queue and removes it.
QueueAfterGet(q) == Tail(q)

\* AsyncLimiter(max_rate=args.rate_limit, time_period=1): a leaky bucket of
\* capacity max_rate that leaks max_rate units per period.  acquire() grants
\* when the level plus one does not exceed the capacity.
HasCapacity(lvl) == lvl + 1 <= args.rate_limit

\* AsyncLimiter._leak(): the level drops by the time elapsed since the last
\* check, times the rate.  Time is counted in ticks of time_period / max_rate,
\* the time in which one unit leaks.
Leak(lvl, elapsed) == IF lvl > elapsed THEN lvl - elapsed ELSE 0

\* The window of one time_period, in ticks.
Period == args.rate_limit

\* The acquires granted in each tick of the last period, `elapsed` ticks later.
Shift(rec, elapsed) ==
    [i \in DOMAIN rec |-> IF i > elapsed THEN rec[i - elapsed] ELSE 0]

\* Variant: x[i] = x[j] without the assignment back.
SwapOverwrites(s, i, j) == [s EXCEPT ![i] = s[j]]

\* x[i], x[j] = x[j], x[i]
Swap(s, i, j) == [s EXCEPT ![i] = s[j], ![j] = s[i]]

\* random.shuffle(x): for i from the last index down to the second, swap
\* x[i] with x[j] for a random j <= i.
RECURSIVE ShuffleFrom(_, _)
ShuffleFrom(s, i) ==
    IF i <= 1 THEN {s}
    ELSE UNION {ShuffleFrom(Swap(s, i, j), i - 1) : j \in 1 .. i}

Shuffle(s) == ShuffleFrom(s, Len(s))

\* Variant: range(args.concurrency - 1), one None too few.
SentinelsShort == [i \in 1 .. args.concurrency - 1 |-> None]

\* Variant: one None per profile link instead of one per worker.
SentinelsPerLink == [i \in 1 .. Len(profile_links) |-> None]

\* for _ in range(args.concurrency): q.put_nowait(None)
Sentinels == [i \in 1 .. args.concurrency |-> None]

----------------------------------------------------------------------------
\* The body of worker()'s loop, from one suspension to the next.  A step is
\* computed on a record: the queue, the unfinished count, the history
\* increments, and in the end the place where the worker suspends.

\* `elapsed` is the time since the limiter was last checked.
StepStart(elapsed) ==
    [queue |-> queue, unf |-> unfinished, got |-> 0, done |-> 0, sdone |-> 0,
     acq |-> 0, raised |-> FALSE, pc |-> "none", link |-> None, adm |-> None,
     elapsed |-> elapsed, level |-> level, recent |-> recent]

Suspend(S, pc, l, adm) == [S EXCEPT !.pc = pc, !.link = l, !.adm = adm]

\* Variant: task_done() at the end of the try block instead of in finally,
\* so that a caught exception skips it.
DoneCallsNoFinally(outcome) == IF outcome = "error" THEN 0 ELSE 1

\* Variant: `if link is None: break` before the try statement.
DoneCallsBreakOutside(outcome) == IF outcome = "break" THEN 0 ELSE 1

\* finally: q.task_done() runs once on every way out of the try block:
\* a written result, `continue` on no result, a caught exception, `break`
\* on None, and a CancelledError passing through.
DoneCalls(outcome) == 1

\* Variant: no `except Exception` clause, an error of the cycle propagates.
AfterTryNoExcept(outcome) ==
    CASE outcome \in {"result", "none"} -> "loop"
      [] outcome = "break" -> "exit"
      [] outcome = "cancel" -> "propagate"
      [] outcome = "error" -> "raise"

\* Variant: `continue` instead of `break` on None.
AfterTryBreakLoops(outcome) ==
    CASE outcome \in {"result", "none", "error", "break"} -> "loop"
      [] outcome = "cancel" -> "propagate"

\* Where control goes after the try statement.  `except Exception` catches
\* an error of the cycle and the loop goes on; `break` leaves the loop;
\* CancelledError is no Exception and propagates.
AfterTry(outcome) ==
    CASE outcome \in {"result", "none", "error"} -> "loop"
      [] outcome = "break" -> "exit"
      [] outcome = "cancel" -> "propagate"

\* q.task_done() raises ValueError when called more often than items were put.
Finally(outcome, S) ==
    LET calls == DoneCalls(outcome)
    IN  IF S.unf < calls THEN [S EXCEPT !.raised = TRUE]
        ELSE [S EXCEPT !.unf = @ - calls,
                       !.done = @ + (IF outcome = "break" THEN 0 ELSE calls),
                       !.sdone = @ + (IF outcome = "break" THEN calls ELSE 0)]

\* acquire() grants: the level rises by one.
Grant(S, lvl, rec) ==
    [S EXCEPT !.level = lvl + 1, !.acq = @ + 1,
              !.recent = [i \in DOMAIN rec |-> IF i = 1 THEN rec[i] + 1 ELSE rec[i]]]

\* Variant: page.goto outside `async with limiter`, no acquire before it.
ThrottleNoAcquire(S, l) == Suspend(S, "fetching", l, l)

\* async with limiter: acquire() leaks, then grants or waits; page.goto
\* starts as soon as acquire() returns.
Throttle(S, l) ==
    LET lvl == Leak(S.level, S.elapsed)
        rec == Shift(S.recent, S.elapsed)
    IN  IF HasCapacity(lvl) THEN Suspend(Grant(S, lvl, rec), "fetching", l, l)
        ELSE Suspend([S EXCEPT !.level = lvl, !.recent = rec], "throttled", l, None)

\* link = await q.get(), and on to the next suspension.
LoopTop(S) ==
    IF S.queue = <<>> THEN Suspend(S, "get", None, None)
    ELSE LET l == Head(S.queue)
             S1 == [S EXCEPT !.queue = QueueAfterGet(S.queue)]
         IN  IF l = None
             THEN LET F == Finally("break", S1)
                  IN  IF F.raised THEN Suspend(F, "failed", None, None)
                      ELSE IF AfterTry("break") = "exit"
                           THEN Suspend(F, "closing", None, None)
                           ELSE Suspend(F, "get", None, None)
             ELSE Throttle([S1 EXCEPT !.got = @ + 1], l)

\* The end of a cycle: the finally block, then the loop, the exit or the
\* propagating exception.
Cycle(outcome, S) ==
    LET F == Finally(outcome, S)
        to == AfterTry(outcome)
    IN  IF F.raised THEN Suspend(F, "failed", None, None)
        ELSE CASE to = "loop" -> LoopTop(F)
               [] to = "exit" -> Suspend(F, "closing", None, None)
               [] to = "propagate" -> Suspend(F, "cancelled", None, None)
               [] OTHER -> Suspend(F, "failed", None, None)

\* Variant: tasks created outside a TaskGroup, a failed task cancels none.
AbortNobody(except) == [v \in Workers |-> FALSE]

\* TaskGroup._abort(): cancel every task that is not done.
Abort(except) == [v \in Workers |-> v # except /\ wpc[v] \notin Terminal]

\* The state after worker w ran to the suspension r, with history h.  A task
\* that ends with an exception makes the TaskGroup abort and cancel main().
Apply(w, r, h) ==
    /\ wpc' = [wpc EXCEPT ![w] = r.pc]
    /\ link' = [link EXCEPT ![w] = r.link]
    /\ queue' = r.queue
    /\ unfinished' = r.unf
    /\ level' = r.level
    /\ recent' = r.recent
    /\ fetched' = IF r.adm = None THEN fetched
                  ELSE [fetched EXCEPT ![r.adm] = @ + 1]
    /\ owed' = [owed EXCEPT ![w] = @ + r.got - r.done]
    /\ hist' = [h EXCEPT !.gets = @ + r.got, !.dones = @ + r.done,
                         !.sdone = @ + r.sdone, !.acq = @ + r.acq]
    /\ IF r.pc = "failed"
       THEN /\ errors' = errors + 1
            /\ IF aborting
               THEN /\ wcancel' = [wcancel EXCEPT ![w] = FALSE]
                    /\ UNCHANGED <<aborting, dcancel>>
               ELSE /\ wcancel' = Abort(w)
                    /\ aborting' = TRUE
                    /\ dcancel' = TRUE
       ELSE /\ wcancel' = IF r.pc \in Terminal
                          THEN [wcancel EXCEPT ![w] = FALSE] ELSE wcancel
            /\ UNCHANGED <<errors, aborting, dcancel>>

Runs(w, pc) == wpc[w] = pc /\ ~wcancel[w]
----------------------------------------------------------------------------
\* Initial state: main() has parsed its arguments and connected the browser.

\* The history of the limiter's window is recorded only by a specification
\* that starts it as a window of one period; started empty, it stays empty.
InitButWindow ==
    /\ args \in [concurrency : 1 .. MaxConcurrency,
                 rate_limit : {Rate},
                 randomize : BOOLEAN]
    /\ dpc = "discover"
    /\ profile_links = <<>>
    /\ queue = <<>>
    /\ unfinished = 0
    /\ wpc = [w \in Workers |-> "none"]
    /\ link = [w \in Workers |-> None]
    /\ wcancel = [w \in Workers |-> FALSE]
    /\ dcancel = FALSE
    /\ aborting = FALSE
    /\ errors = 0
    /\ interrupted = FALSE
    /\ level = 0
    /\ fetched = [u \in Urls |-> 0]
    /\ sink = [u \in Urls |-> 0]
    /\ hist = [gets |-> 0, dones |-> 0, sput |-> 0, sdone |-> 0,
               fail |-> 0, none |-> 0, result |-> 0, acq |-> 0]
    /\ owed = [w \in Workers |-> 0]
    /\ joined = FALSE

Init == InitButWindow /\ recent = <<>>

InitWindow == InitButWindow /\ recent = Zeros(Period)

workerVars == <<wpc, link, wcancel, owed>>
queueVars == <<queue, unfinished>>
limiterVars == <<level, recent, fetched>>
groupVars == <<dcancel, aborting, errors>>

----------------------------------------------------------------------------
\* main()

\* profile_links = await get_profile_links(browser)
Discover ==
    /\ dpc = "discover"
    /\ \E s \in Discoverable : profile_links' = s
    /\ dpc' = "seed"
    /\ UNCHANGED <<args, workerVars, queueVars, limiterVars, groupVars,
                   interrupted, sink, hist, joined>>

\* Variant: the exception of get_profile_links caught and logged in main(),
\* which goes on to browser.close() and the final message.
DiscoverFailsSwallowed ==
    /\ dpc = "discover"
    /\ dpc' = "close"
    /\ UNCHANGED <<args, profile_links, workerVars, queueVars, limiterVars,
                   groupVars, interrupted, sink, hist, joined>>

\* get_profile_links raises: the exception leaves main().
DiscoverFails ==
    /\ dpc = "discover"
    /\ dpc' = "failed"
    /\ UNCHANGED <<args, profile_links, workerVars, queueVars, limiterVars,
                   groupVars, interrupted, sink, hist, joined>>

\* if args.randomize: random.shuffle(profile_links)
Randomized(s) == IF args.randomize THEN Shuffle(s) ELSE {s}

\* for x in profile_links: q.put_nowait(x)
Enqueued(s) == s

\* The shuffle, the seeding of the queue, the limiter; await asyncio.sleep.
Seed ==
    /\ dpc = "seed"
    /\ \E s \in Randomized(profile_links) :
           /\ profile_links' = s
           /\ queue' = queue \o Enqueued(s)
           /\ unfinished' = unfinished + Len(Enqueued(s))
    /\ dpc' = "sleep"
    /\ UNCHANGED <<args, workerVars, limiterVars, groupVars, interrupted,
                   sink, hist, joined>>

\* After await q.join(): one None per worker, then the TaskGroup's exit waits
\* for the tasks.
PutSentinels ==
    /\ queue' = queue \o Sentinels
    /\ unfinished' = unfinished + Len(Sentinels)
    /\ hist' = [hist EXCEPT !.sput = @ + Len(Sentinels)]
    /\ joined' = TRUE
    /\ dpc' = "wait"

\* The sleep is over: the TaskGroup is entered and the tasks are created;
\* await q.join() suspends only if some task is unfinished.
Launch ==
    /\ dpc = "sleep" /\ ~dcancel
    /\ wpc' = [w \in Workers |-> "setup"]
    /\ IF JoinReady(unfinished) THEN PutSentinels
       ELSE /\ dpc' = "join"
            /\ UNCHANGED <<queueVars, hist, joined>>
    /\ UNCHANGED <<args, profile_links, link, wcancel, owed, limiterVars,
                   groupVars, interrupted, sink>>

\* q.join() returns.
JoinReturns ==
    /\ dpc = "join" /\ ~dcancel
    /\ JoinReady(unfinished)
    /\ PutSentinels
    /\ UNCHANGED <<args, profile_links, workerVars, limiterVars, groupVars,
                   interrupted, sink>>

\* What TaskGroup.__aexit__ raises once every task is done: the group of the
\* tasks' errors, else the CancelledError it was left with, else nothing.
GroupRaises ==
    IF errors > 0 THEN "group" ELSE IF aborting THEN "cancelled" ELSE "nothing"

\* Variant: no contextlib.suppress, the CancelledError leaves main().
AfterWithNoSuppress(raises) ==
    IF raises = "nothing" THEN "close" ELSE "failed"

\* with contextlib.suppress(asyncio.CancelledError): the CancelledError ends
\* there and main() goes on to browser.close(); an exception group leaves main().
AfterWith(raises) ==
    IF raises = "group" THEN "failed" ELSE "close"

\* Variant: tasks created outside a TaskGroup, nothing waits for them.
PoolExitEarly ==
    /\ dpc = "wait" /\ ~dcancel
    /\ dpc' = AfterWith(GroupRaises)
    /\ UNCHANGED <<args, profile_links, workerVars, queueVars, limiterVars,
                   groupVars, interrupted, sink, hist, joined>>

\* Every task is done: the TaskGroup is left.
PoolExit ==
    /\ dpc = "wait" /\ ~dcancel
    /\ \A w \in Workers : wpc[w] \in Terminal
    /\ dpc' = AfterWith(GroupRaises)
    /\ UNCHANGED <<args, profile_links, workerVars, queueVars, limiterVars,
                   groupVars, interrupted, sink, hist, joined>>

\* await browser.close() returns; "all tasks finished!" is printed.
BrowserClosed ==
    /\ dpc = "close" /\ ~dcancel
    /\ dpc' = "done"
    /\ UNCHANGED <<args, profile_links, workerVars, queueVars, limiterVars,
                   groupVars, interrupted, sink, hist, joined>>

\* SIGINT: asyncio.run cancels the main task (once).
Interrupt ==
    /\ ~interrupted
    /\ dpc \in {"sleep", "join", "wait", "close"}
    /\ interrupted' = TRUE
    /\ dcancel' = TRUE
    /\ UNCHANGED <<args, dpc, profile_links, workerVars, queueVars, limiterVars,
                   aborting, errors, sink, hist, joined>>

\* The CancelledError reaches main() where it is suspended.  Inside the
\* TaskGroup it aborts the group, which then waits for its tasks; outside it
\* leaves main(), and asyncio.run ends with the suppressed KeyboardInterrupt.
DispatcherCancelled ==
    /\ dcancel
    /\ dcancel' = FALSE
    /\ IF dpc \in {"join", "wait"}
       THEN /\ dpc' = "wait"
            /\ aborting' = TRUE
            /\ wcancel' = IF aborting THEN wcancel ELSE Abort(0)
       ELSE /\ dpc' = "interrupted"
            /\ UNCHANGED <<aborting, wcancel>>
    /\ UNCHANGED <<args, profile_links, wpc, link, owed, queueVars, limiterVars,
                   errors, interrupted, sink, hist, joined>>

----------------------------------------------------------------------------
\* worker()

\* The task has started and set up its context, page and viewport; the loop
\* is entered.
SetupDone(w, e) ==
    /\ Runs(w, "setup")
    /\ Apply(w, LoopTop(StepStart(e)), hist)
    /\ UNCHANGED <<args, dpc, profile_links, interrupted, sink, joined>>

\* new_context, new_page or set_viewport_size raises: the task fails.  The
\* tasks of W fail in the same turn of the event loop, before the TaskGroup's
\* done callback of the first has cancelled the others.
SetupFails(W) ==
    /\ W # {}
    /\ \A w \in W : Runs(w, "setup")
    /\ wpc' = [w \in Workers |-> IF w \in W THEN "failed" ELSE wpc[w]]
    /\ errors' = errors + Cardinality(W)
    /\ IF aborting
       THEN UNCHANGED <<wcancel, aborting, dcancel>>
       ELSE /\ wcancel' = [v \in Workers |-> v \notin W /\ Abort(0)[v]]
            /\ aborting' = TRUE
            /\ dcancel' = TRUE
    /\ UNCHANGED <<args, dpc, profile_links, link, owed, queueVars, limiterVars,
                   interrupted, sink, hist, joined>>

\* A worker suspended in q.get() is woken by a put.
Wake(w, e) ==
    /\ Runs(w, "get")
    /\ queue # <<>>
    /\ Apply(w, LoopTop(StepStart(e)), hist)
    /\ UNCHANGED <<args, dpc, profile_links, interrupted, sink, joined>>

\* A worker suspended in limiter.acquire() checks again and finds capacity.
Admitted(w, e) ==
    /\ Runs(w, "throttled")
    /\ HasCapacity(Leak(level, e))
    /\ Apply(w, Throttle(StepStart(e), link[w]), hist)
    /\ UNCHANGED <<args, dpc, profile_links, interrupted, sink, joined>>

\* Variant: the line written once more at the end of the cycle.
WrittenTwice(out, l) == [out EXCEPT ![l] = @ + 2]

\* Variant: the line buffered and written only later, not in the cycle.
WrittenLater(out, l) == out

\* output.write(f"{website_link}\n"); output.flush()
Written(out, l) == [out EXCEPT ![l] = @ + 1]

\* The page loads and page.evaluate returns a website link: it is written to
\* the output.
Extracted(w, e) ==
    /\ Runs(w, "fetching")
    /\ HasWebsiteLink(link[w])
    /\ sink' = Written(sink, link[w])
    /\ Apply(w, Cycle("result", StepStart(e)), [hist EXCEPT !.result = @ + 1])
    /\ UNCHANGED <<args, dpc, profile_links, interrupted, joined>>

\* The page loads and page.evaluate returns nothing: continue.
NoResult(w, e) ==
    /\ Runs(w, "fetching")
    /\ ~HasWebsiteLink(link[w])
    /\ Apply(w, Cycle("none", StepStart(e)), [hist EXCEPT !.none = @ + 1])
    /\ UNCHANGED <<args, dpc, profile_links, interrupted, sink, joined>>

\* page.goto, response.url, page.evaluate or the write raises an Exception.
FetchFails(w, e) ==
    /\ Runs(w, "fetching")
    /\ Apply(w, Cycle("error", StepStart(e)), [hist EXCEPT !.fail = @ + 1])
    /\ UNCHANGED <<args, dpc, profile_links, interrupted, sink, joined>>

\* await context.close() returns: the task ends.
Closed(w) ==
    /\ Runs(w, "closing")
    /\ Apply(w, Suspend(StepStart(0), "stopped", None, None), hist)
    /\ UNCHANGED <<args, dpc, profile_links, interrupted, sink, joined>>

\* context.close() raises: the task fails.
CloseFails(w) ==
    /\ Runs(w, "closing")
    /\ Apply(w, Suspend(StepStart(0), "failed", None, None), hist)
    /\ UNCHANGED <<args, dpc, profile_links, interrupted, sink, joined>>

\* The CancelledError reaches the worker where it is suspended: inside the
\* try block the finally block runs first.
Cancelled(w) ==
    /\ wcancel[w]
    /\ wpc[w] \notin Terminal
    /\ Apply(w, IF wpc[w] \in InCycle THEN Cycle("cancel", StepStart(0))
                ELSE Suspend(StepStart(0), "cancelled", None, None), hist)
    /\ UNCHANGED <<args, dpc, profile_links, interrupted, sink, joined>>

----------------------------------------------------------------------------
\* The run when nothing but a page fetch fails and no SIGINT arrives.
NextNormal ==
    \/ Discover
    \/ Seed
    \/ Launch
    \/ JoinReturns
    \/ PoolExit
    \/ BrowserClosed
    \/ \E w \in Workers, e \in 0 .. Period : SetupDone(w, e)
    \/ \E w \in Workers, e \in 0 .. Period : Wake(w, e)
    \/ \E w \in Workers, e \in 0 .. Period : Admitted(w, e)
    \/ \E w \in Workers, e \in 0 .. Period : Extracted(w, e)
    \/ \E w \in Workers, e \in 0 .. Period : NoResult(w, e)
    \/ \E w \in Workers, e \in 0 .. Period : FetchFails(w, e)
    \/ \E w \in Workers : Closed(w)

\* The same with a SIGINT and the cancellations that follow it.
NextCancel ==
    \/ NextNormal
    \/ Interrupt
    \/ DispatcherCancelled
    \/ \E w \in Workers : Cancelled(w)

\* Every step of the program.
Next ==
    \/ NextCancel
    \/ DiscoverFails
    \/ \E W \in SUBSET Workers : SetupFails(W)
    \/ \E w \in Workers : CloseFails(w)

Spec == Init /\ [][Next]_vars

\* The same program, with the limiter's window recorded.
LimiterSpec == InitWindow /\ [][Next]_vars

\* The event loop runs a task that is ready, and every awaited browser call
\* and every wait on the limiter ends: the program does not stop while one of
\* its tasks can take a step.  (A SIGINT need not come.)
FairNormal == WF_vars(NextNormal)

FairCancel ==
    WF_vars(NextNormal \/ DispatcherCancelled \/ \E w \in Workers : Cancelled(w))

\* No SIGINT, no failure of discovery or of a browser context.
NormalSpec == Init /\ [][NextNormal]_vars /\ FairNormal

\* A SIGINT may arrive; discovery and the browser contexts do not fail.
CancelSpec == Init /\ [][NextCancel]_vars /\ FairCancel

\* The run in which the setup of workers may fail, and the cancellations
\* that follow; no SIGINT.
NextSetup ==
    \/ NextNormal
    \/ DispatcherCancelled
    \/ \E w \in Workers : Cancelled(w)
    \/ \E W \in SUBSET Workers : SetupFails(W)

SetupSpec == Init /\ [][NextSetup]_vars /\ FairCancel
----------------------------------------------------------------------------
\* Properties.

NumLinks == Len(profile_links)
Holding == {w \in Workers : wpc[w] \in InCycle}
Lines == sink["a"] + sink["b"]
AllTerminal == \A w \in Workers : wpc[w] \in Terminal
AllStopped == \A w \in Workers : wpc[w] = "stopped"

\* C1: a worker calls task_done exactly once for every item it dequeued, and
\* before its next get: the item gets of a worker exceed its item task_done
\* calls by one exactly while it is inside a cycle, whether the cycle ends
\* with a result, with no result or with an exception.
C1_TaskDoneOncePerItem ==
    /\ \A w \in Workers : owed[w] = IF w \in Holding THEN 1 ELSE 0
    /\ hist.gets - hist.dones = Cardinality(Holding)
    /\ hist.fail + hist.none + hist.result <= hist.dones

\* The three outcomes have each ended a cycle and every dequeued item is done.
C1_Witness ==
    /\ hist.fail >= 1 /\ hist.none >= 1 /\ hist.result >= 1
    /\ hist.dones = hist.fail + hist.none + hist.result
    /\ hist.gets = hist.dones

\* C2: no item is fetched twice, by two workers or by one: a link is loaded
\* at most as often as it occurs in the seed list; and when main() has left
\* the TaskGroup without a cancellation, every seeded item was loaded exactly
\* once.
C2_EachItemOnce ==
    /\ \A u \in Urls : fetched[u] <= Count(profile_links, u)
    /\ (dpc \in {"close", "done"} /\ ~aborting)
           => \A u \in Urls : fetched[u] = Count(profile_links, u)

\* A run of two workers over three items, none failed, has finished.
C2_Witness ==
    /\ dpc = "done" /\ ~aborting /\ hist.fail = 0
    /\ NumLinks = MaxLinks /\ args.concurrency >= 2
    /\ fetched["a"] + fetched["b"] = MaxLinks

\* C3: q.join() has returned only if every seeded item was dequeued and
\* marked done.
C3_JoinAfterAllDone ==
    joined => /\ hist.gets = NumLinks
              /\ hist.dones = NumLinks
              /\ \A i \in 1 .. Len(queue) : queue[i] = None

\* join() has returned after three items.
C3_Witness == joined /\ NumLinks = MaxLinks /\ dpc = "wait"

\* C4: without a SIGINT, with every task scheduled and every browser call
\* returning or raising, the run reaches the state where join() has returned,
\* every worker has stopped and main() is through its wait for the workers
\* and has finished; in particular no state before that is a deadlock.
C4_DrainsAndStops == <>(joined /\ AllStopped /\ dpc = "done")

\* The run has finished with an empty seed list and more workers than items.
C4_Witness ==
    /\ joined /\ AllStopped /\ dpc = "done"
    /\ NumLinks = 0 /\ args.concurrency = MaxConcurrency

PreJoin == {"discover", "seed", "sleep", "join"}

\* C5: no None is in the queue or was ever put while main() has not got past
\* q.join(); once join() has returned exactly args.concurrency were put, and
\* if join() is left by a cancellation none is.
C5_SentinelsAfterJoin ==
    /\ dpc \in PreJoin => /\ hist.sput = 0
                          /\ Count(queue, None) = 0
                          /\ ~joined
    /\ hist.sput = IF joined THEN args.concurrency ELSE 0
    /\ Count(queue, None) <= hist.sput
    /\ joined => unfinished <= args.concurrency

\* join() has returned with three links seeded and the Nones are in the queue.
C5_Witness ==
    /\ joined /\ NumLinks = MaxLinks /\ args.concurrency = MaxConcurrency
    /\ queue = Sentinels

\* C6: a failed or empty fetch makes no worker fail and never reaches main();
\* join() still returns, and the finished run has written as many lines as
\* links were seeded, less the failed, less the empty ones.
C6_Invariant ==
    /\ \A w \in Workers : wpc[w] # "failed"
    /\ errors = 0 /\ ~aborting /\ dpc # "failed"
    /\ dpc \in {"close", "done"}
           => /\ joined
              /\ Lines = NumLinks - hist.fail - hist.none

C6_FailuresIsolated == [](C6_Invariant) /\ <>(joined /\ dpc = "done")

\* A finished run in which one fetch failed, one was empty and one gave a line.
C6_Witness ==
    /\ dpc = "done" /\ hist.fail = 1 /\ hist.none = 1 /\ Lines = 1
    /\ NumLinks = MaxLinks

\* The links put into the queue so far.
Seeded == IF dpc \in {"discover", "seed"} THEN 0 ELSE NumLinks

\* C7, as claimed: task_done is never called for a None and a None never
\* counts among the unfinished tasks.
C7_SentinelNotCounted ==
    /\ hist.sdone = 0
    /\ unfinished = Seeded - hist.dones

\* C7, as the code has it: a None counts among the unfinished tasks from its
\* put on, and the worker that dequeues it calls task_done once for it (the
\* break is inside the try statement) before it closes its context and stops.
C7_SentinelDoneOnce ==
    /\ unfinished = (Seeded - hist.dones) + (hist.sput - hist.sdone)
    /\ hist.sdone = hist.sput - Count(queue, None)
    /\ \A w \in Workers : wpc[w] = "stopped" => hist.sdone >= 1
    /\ (joined /\ AllStopped) => hist.sdone = args.concurrency /\ unfinished = 0

\* Two workers have taken their None and stopped.
C7_Witness ==
    /\ AllStopped /\ args.concurrency = MaxConcurrency
    /\ hist.sdone = MaxConcurrency /\ unfinished = 0

\* C8: a SIGINT that reaches main() in q.join() or in its wait for the
\* workers leads to every worker task having ended and main() having gone on
\* to the end, the CancelledError suppressed.
C8_CancelEndsRun ==
    (interrupted /\ dpc \in {"join", "wait"}) ~> (AllTerminal /\ dpc = "done")

\* An interrupted run has ended: join() was left by the cancellation, one
\* worker was cancelled in a cycle and one outside.
C8_Witness ==
    /\ interrupted /\ ~joined /\ dpc = "done" /\ AllTerminal
    /\ \E w \in Workers : wpc[w] = "cancelled"
    /\ hist.dones > hist.fail + hist.none + hist.result

\* C9, as claimed: at most rate_limit acquires are granted in any window of
\* one period.
C9_WindowBound == Sum(recent) <= args.rate_limit

\* C10: the links put into the queue are the discovered ones, each as often
\* as it was discovered, and in the order of discovery unless randomize is set.
C10_SeedsPreserved ==
    [][dpc = "seed" =>
          /\ \A u \in Urls : Count(queue', u) = Count(profile_links, u)
          /\ Len(queue') = Len(profile_links)
          /\ ~args.randomize => queue' = profile_links]_vars

\* Three links were shuffled into another order and put into the queue.
C10_Witness ==
    /\ dpc = "sleep" /\ args.randomize /\ Len(queue) = MaxLinks
    /\ queue # SubSeq(Sitemap, 1, MaxLinks)

\* C11: task_done is never called more often than get has returned, also
\* with failed fetches and with workers cancelled in get, in the limiter or
\* in the fetch: the unfinished count is the queue's length plus the workers
\* inside the try statement, so never below zero, and no worker task ends
\* with an exception out of its loop (the ValueError of task_done).
C11_NoOverCall ==
    /\ [](/\ unfinished >= 0
          /\ hist.dones <= hist.gets
          /\ hist.dones + hist.sdone <= hist.gets + hist.sput
          /\ unfinished = Len(queue) + Cardinality(Holding))
    /\ [][\A w \in Workers :
              (wpc'[w] = "failed" /\ wpc[w] # "failed")
                  => wpc[w] \in {"setup", "closing"}]_vars

\* After a SIGINT two workers have ended cancelled, one inside the try
\* statement and one outside, after a fetch had failed.
C11_Witness ==
    /\ interrupted /\ hist.fail >= 1
    /\ \A w \in Workers : wpc[w] = "cancelled"
    /\ args.concurrency = MaxConcurrency
    /\ hist.dones = hist.fail + hist.none + hist.result + 1
    /\ hist.dones = hist.gets

Loading == {w \in Workers : wpc[w] = "fetching"}

\* C12: every page load is preceded by exactly one acquire of the limiter
\* for its item: the acquires granted are the loads started, and they are
\* the cycles ended after a load plus the loads under way (plus the loads a
\* cancellation ended); a worker holds an item exactly while it is in the
\* limiter or in the fetch; and a step in which a worker takes a None
\* acquires nothing and leaves the limiter as it was.
C12_AcquireBeforeLoad ==
    /\ [](/\ hist.acq = fetched["a"] + fetched["b"]
          /\ hist.acq >= hist.fail + hist.none + hist.result + Cardinality(Loading)
          /\ ~aborting => hist.acq = hist.fail + hist.none + hist.result
                                         + Cardinality(Loading)
          /\ \A w \in Workers : wpc[w] \in InCycle <=> link[w] # None)
    /\ [][/\ hist'.acq - hist.acq \in {0, 1}
          /\ hist'.sdone # hist.sdone
                 => hist'.acq = hist.acq /\ level' = level]_vars

\* A run of one worker and three loads, each after its acquire, has ended
\* with the worker stopped by its None.
C12_Witness ==
    /\ dpc = "done" /\ AllStopped
    /\ hist.acq = MaxLinks /\ hist.sdone = args.concurrency
    /\ args.concurrency = 1

\* C13: the lines written are the cycles that ended with a loaded page and
\* a website link found on it, one line each: no link has more lines than
\* loads, nor more loads than it was seeded; a page without the element has
\* none; and lines, failed fetches, empty fetches and loads under way never
\* exceed the loads started, so a failed or empty fetch and a None leave no
\* line.
C13_LineIffResult ==
    /\ Lines = hist.result
    /\ \A u \in Urls : /\ sink[u] <= fetched[u]
                       /\ fetched[u] <= Count(profile_links, u)
                       /\ sink[u] > 0 => HasWebsiteLink(u)
    /\ Lines + hist.fail + hist.none + Cardinality(Loading) <= hist.acq
    /\ (dpc = "done" /\ joined) => Lines = hist.acq - hist.fail - hist.none

\* A finished run: one page gave a line, one had no link, one fetch failed,
\* and every worker took its None.
C13_Witness ==
    /\ dpc = "done" /\ joined /\ hist.sdone = args.concurrency
    /\ sink["a"] = 1 /\ sink["b"] = 0
    /\ fetched["a"] = 2 /\ fetched["b"] = 1
    /\ hist.fail = 1 /\ hist.none = 1

\* C14: the line of an item is in the output when task_done is called for
\* it: the cycles marked done with a result never exceed the lines written,
\* the cycles marked done without one are the failed, the empty and at most
\* one cancelled cycle per worker, and as soon as q.join() has returned the
\* output holds one line for every seeded link whose fetch neither failed
\* nor was empty.
C14_WrittenBeforeDone ==
    /\ hist.result <= Lines
    /\ hist.dones - hist.fail - hist.none - Lines <= Cardinality(Workers)
    /\ joined => /\ Lines = NumLinks - hist.fail - hist.none
                 /\ hist.dones = hist.result + hist.fail + hist.none

\* join() has just returned, no worker has taken its None yet, and the two
\* lines of the run are written.
C14_Witness ==
    /\ joined /\ dpc = "wait" /\ hist.sdone = 0
    /\ NumLinks = MaxLinks /\ Lines = 2 /\ hist.none = 1

\* The workers that have left their loop.
Leaving == {w \in Workers : wpc[w] \in {"closing", "stopped"}}

\* C15: without cancellation or failure every worker takes one None and no
\* more: the Nones taken are the workers that have left their loop, a None
\* taken is not put back, a worker that has left its loop stays out of it,
\* and when main() has finished each of the workers has taken one and the
\* queue is empty.
C15_OneSentinelEach ==
    /\ [](/\ Cardinality(Leaving) = hist.sdone
          /\ hist.sdone + Count(queue, None) = hist.sput
          /\ dpc = "done" => /\ queue = <<>>
                             /\ unfinished = 0
                             /\ hist.sdone = args.concurrency
                             /\ Leaving = Workers)
    /\ [][\A w \in Workers : w \in Leaving => wpc'[w] \in {"closing", "stopped"}]_vars

\* main() has finished a run of two workers and three links, the queue empty.
C15_Witness ==
    /\ dpc = "done" /\ queue = <<>> /\ Leaving = Workers
    /\ args.concurrency = MaxConcurrency /\ NumLinks = MaxLinks
    /\ hist.sdone = MaxConcurrency

\* C16, as claimed: a worker task that holds a browser context ends only by
\* the return of context.close(), whether it took its None or was cancelled.
C16_ContextClosedOnExit ==
    [][\A w \in Workers :
           (wpc[w] \in HasContext /\ wpc'[w] \in Terminal)
               => wpc'[w] = "stopped"]_vars

\* C17: browser.close() is called only when every worker task has ended: no
\* worker is running while main() is in browser.close() or past it, and
\* main() leaves its wait for the workers only with all of them ended and
\* only to browser.close(), after a drained run and after a cancelled one.
C17_CloseAfterWorkers ==
    /\ [](dpc \in {"close", "done"} => AllTerminal /\ Loading = {})
    /\ [][/\ (dpc # "close" /\ dpc' = "close") => dpc = "wait" /\ AllTerminal
          /\ (dpc = "wait" /\ dpc' # "wait") => dpc' = "close"]_vars

\* After a SIGINT in the pool the workers have ended cancelled and main() is
\* in browser.close().
C17_Witness ==
    /\ dpc = "close" /\ interrupted /\ aborting /\ ~dcancel
    /\ \A w \in Workers : wpc[w] = "cancelled"
    /\ args.concurrency = MaxConcurrency

\* C18: when main() puts the Nones the queue is empty and every seeded link
\* was dequeued and marked done; every worker is then waiting in get() or
\* has not entered its loop yet, none is in the limiter or in a fetch and
\* none holds a link.  From then on no worker is inside a cycle and the
\* queue holds nothing but Nones: a None never stands before a link.
C18_SentinelsAfterItems ==
    /\ [](hist.sput > 0 => /\ Holding = {}
                           /\ \A i \in 1 .. Len(queue) : queue[i] = None)
    /\ [][hist'.sput # hist.sput
             => /\ queue = <<>> /\ unfinished = 0
                /\ hist.gets = NumLinks /\ hist.dones = NumLinks
                /\ \A w \in Workers : /\ wpc'[w] \in {"setup", "get"}
                                      /\ link'[w] = None]_vars

\* The Nones were just put after three links: one worker waits in get(), the
\* other has not entered its loop.
C18_Witness ==
    /\ joined /\ dpc = "wait" /\ queue = Sentinels /\ NumLinks = MaxLinks
    /\ \E w \in Workers : wpc[w] = "get"
    /\ \E w \in Workers : wpc[w] = "setup"

\* C19: a failure of get_profile_links leaves main() as an exception: the
\* run has failed for good with nothing put into the queue, no worker task
\* created, no page loaded and no line written; main() goes from discovery
\* only to the seeding or to the failure, and it reaches browser.close() and
\* the final message only after the workers were created.
C19_DiscoveryFailureFatal ==
    /\ []((dpc = "failed" /\ errors = 0)
             => /\ profile_links = <<>> /\ queue = <<>> /\ unfinished = 0
                /\ \A w \in Workers : wpc[w] = "none"
                /\ Lines = 0 /\ hist.acq = 0 /\ hist.gets = 0 /\ hist.sput = 0
                /\ ~joined)
    /\ [](dpc \in {"close", "done"} => \A w \in Workers : wpc[w] # "none")
    /\ [][/\ dpc = "failed" => dpc' = "failed"
          /\ dpc = "discover" => dpc' \in {"discover", "seed", "failed"}]_vars

\* Discovery has failed in a run of two workers.
C19_Witness ==
    /\ dpc = "failed" /\ errors = 0 /\ args.concurrency = MaxConcurrency
    /\ \A w \in Workers : wpc[w] = "none"

\* C20: once a worker has failed in its setup the TaskGroup is aborting and
\* main() never reaches browser.close() or the final message; the run goes
\* on to the state where every worker task has ended and main() has failed
\* with the group of the errors, links left in the queue or not.
C20_SetupFailureEndsRun ==
    /\ [](errors > 0 => /\ aborting
                        /\ dpc \notin {"close", "done"}
                        /\ \A w \in Workers :
                               wpc[w] \notin Terminal => wcancel[w])
    /\ (errors > 0) ~> (AllTerminal /\ dpc = "failed")

\* Both workers failed in their setup, three links are left in the queue
\* and main() has failed.
C20_Witness ==
    /\ dpc = "failed" /\ errors = MaxConcurrency
    /\ \A w \in Workers : wpc[w] = "failed"
    /\ Len(queue) = MaxLinks /\ unfinished = MaxLinks /\ ~joined
====
